---- MODULE Spec2Model ----
(***************************************************************************)
(* Model of the validation-and-merge core of patient-rag:                  *)
(*   src/src/generation/validate.py   (validate_json_answer and helpers)   *)
(*   src/src/generation/guardrails.py (focus-term guardrail)               *)
(*   src/src/graphrag/graph_store.py  (PatientGraph)                       *)
(*   src/src/app/ask.py               (one question/answer round)          *)
(*                                                                         *)
(* JSON values are tagged records: Null, Str(s), Num(n, q), Arr(a),        *)
(* Obj(f) with f a function from key strings to JSON values.  A Python     *)
(* string is a sequence of tokens; a token is a citation tag "[S<i>]", one *)
(* of the three negation phrases (any letter case), a run of blanks, the   *)
(* decimal text of a number, or a word of other text.                      *)
(***************************************************************************)
EXTENDS Integers, Sequences, FiniteSets, TLC

(* ------------------------------ bounds --------------------------------- *)
MaxSources == 2     \* num_sources ranges over 0..MaxSources
MaxItems   == 2     \* total number of list elements in a model answer
MaxOps     == 3     \* PatientGraph calls in one run
MaxWords   == 5     \* words in a question put to extract_focus_term
MaxRounds  == 3     \* runs of ask.main made one after another

(* ------------------------------ tokens --------------------------------- *)
Cit(i)    == [k |-> "cit", i |-> i]     \* the text "[S<i>]"
Neg       == [k |-> "neg", i |-> 0]     \* "no evidence of" | "no sign of" | "without evidence of"
Sp        == [k |-> "sp",  i |-> 0]     \* one or more blanks
Digits(i) == [k |-> "num", i |-> i]     \* decimal text of i
W(i)      == [k |-> "w",   i |-> i]     \* any other text; W(0) is the text "None"

(* ---------------------------- JSON values ------------------------------ *)
Null      == [t |-> "null"]
Str(s)    == [t |-> "str", s |-> s]
Num(n, q) == [t |-> "num", n |-> n, q |-> q]   \* q: "int" n, "frac" n + 1/2, "inf" Infinity
IntNum(n)    == Num(n, "int")
Arr(a)    == [t |-> "arr", a |-> a]
Obj(f)    == [t |-> "obj", f |-> f]

\* Python None as a value of the running program (json null after parsing)
None == Null

isinstance(x, ty) == x.t = ty
HasKey(o, key)    == key \in DOMAIN o.f
\* dict.get(key, default)
Get(o, key, default) == IF HasKey(o, key) THEN o.f[key] ELSE default
\* d[key] = v
SetKey(o, key, v) ==
    Obj([x \in (DOMAIN o.f) \cup {key} |-> IF x = key THEN v ELSE o.f[x]])

\* Python truthiness of a JSON value (the operand of "not x")
Truthy(x) ==
    CASE x.t = "null" -> FALSE
      [] x.t = "str"  -> x.s # <<>>
      [] x.t = "num"  -> ~(x.q = "int" /\ x.n = 0)
      [] x.t = "arr"  -> x.a # <<>>
      [] x.t = "obj"  -> DOMAIN x.f # {}

(* ------------------------------ strings -------------------------------- *)
RECURSIVE lstrip(_)
lstrip(s) == IF s # <<>> /\ Head(s) = Sp THEN lstrip(Tail(s)) ELSE s

RECURSIVE rstrip(_)
rstrip(s) == IF s # <<>> /\ s[Len(s)] = Sp THEN rstrip(SubSeq(s, 1, Len(s) - 1)) ELSE s

\* str.strip()
strip(s) == rstrip(lstrip(s))

\* str(x) for the JSON values that occur as names and evidence
pyStr(x) ==
    CASE x.t = "str"  -> x.s
      [] x.t = "null" -> <<W(0)>>
      [] x.t = "num"  -> IF x.q = "int" THEN <<Digits(x.n)>> ELSE <<W(1)>>
      [] OTHER        -> <<W(1)>>

\* CIT_RE.search(ev): position of the first "[S<digits>]" in ev, 0 if none
RECURSIVE CIT_RE_search(_, _)
CIT_RE_search(s, from) ==
    IF from > Len(s) THEN 0
    ELSE IF s[from].k = "cit" THEN from
    ELSE CIT_RE_search(s, from + 1)

\* NEG_PREFIX_RE.match taking group(0), the whole match, for the concept
NEG_PREFIX_RE_match_group0(name) ==
    LET a == lstrip(name) IN
    IF a = <<>> \/ Head(a) # Neg THEN [m |-> FALSE, g2 |-> <<>>]
    ELSE LET b == Tail(a)
             c == lstrip(b)
         IN  IF b = <<>> \/ Head(b) # Sp \/ c = <<>>
             THEN [m |-> FALSE, g2 |-> <<>>]
             ELSE [m |-> TRUE, g2 |-> a]

\* NEG_PREFIX_RE.match(name): ^\s*(prefix)\s+(.+)$ ; yields group(2) or no match
NEG_PREFIX_RE_match(name) ==
    LET a == lstrip(name) IN
    IF a = <<>> \/ Head(a) # Neg THEN [m |-> FALSE, g2 |-> <<>>]
    ELSE LET b == Tail(a)
             c == lstrip(b)
         IN  IF b = <<>> \/ Head(b) # Sp \/ c = <<>>
             THEN [m |-> FALSE, g2 |-> <<>>]
             ELSE [m |-> TRUE, g2 |-> c]

(* ----------------------------- validate.py ----------------------------- *)
OK  == "ok"
VE  == "ValidationError"
EXC == "OtherError"          \* AttributeError, TypeError, OverflowError, ...

S1 == Str(<<Cit(1)>>)        \* the literal "[S1]"

\* _check_citation: "ok" or the exception raised
check_citation(ev, num_sources) ==
    LET s == IF ev = None THEN <<>> ELSE pyStr(ev)
        p == CIT_RE_search(s, 1)
    IN  IF p = 0 THEN VE
        ELSE IF ~(1 <= s[p].i /\ s[p].i <= num_sources) THEN VE
        ELSE OK

\* _as_list
as_list(x) ==
    IF x = None THEN <<>>
    ELSE IF isinstance(x, "arr") THEN x.a
    ELSE <<x>>

\* _to_int_or_none: [err, val]
to_int_or_none(x) ==
    CASE x = None -> [err |-> OK, val |-> None]
      [] x.t = "num" -> IF x.q = "inf" THEN [err |-> EXC, val |-> None]
                        ELSE [err |-> OK, val |-> IntNum(x.n)]
      [] x.t = "str" -> LET s == strip(x.s) IN
                        IF Len(s) = 1 /\ s[1].k = "num"
                        THEN [err |-> OK, val |-> IntNum(s[1].i)]
                        ELSE [err |-> OK, val |-> None]
      [] OTHER -> [err |-> OK, val |-> None]

\* the body of the three loops of _fill_missing_evidence for one dict
FillOne(obj, key, fallback) ==
    IF isinstance(obj, "obj")
       /\ Get(obj, key, None) # None /\ ~Truthy(Get(obj, "evidence", None))
    THEN SetKey(obj, "evidence", fallback)
    ELSE obj

FillList(x, fallback) ==
    IF isinstance(x, "arr")
    THEN Arr([i \in 1..Len(x.a) |-> FillOne(x.a[i], "name", fallback)])
    ELSE x

FillKey(data, key, fallback) ==
    IF HasKey(data, key) THEN SetKey(data, key, FillOne(data.f[key], "value", fallback))
    ELSE data

FillListKey(data, key, fallback) ==
    IF HasKey(data, key) THEN SetKey(data, key, FillList(data.f[key], fallback))
    ELSE data

\* _fill_missing_evidence (data is a dict here; see validate_json_answer)
fill_missing_evidence(data, num_sources) ==
    LET fallback == IF num_sources >= 1 THEN S1 ELSE None
        d1 == FillKey(data, "diagnosis", fallback)
        d2 == FillKey(d1, "treatment", fallback)
        d3 == FillKey(d2, "follow_up", fallback)
        d4 == FillListKey(d3, "negated_findings", fallback)
    IN  FillListKey(d4, "adverse_events", fallback)

ValueEvidence(v, e) == Obj([value |-> v, evidence |-> e])

\* _coerce_value_evidence without the "evidence must be null when value is
\* null" check
coerce_value_evidence_unchecked(obj, num_sources) ==
    CASE isinstance(obj, "obj") ->
           IF ~HasKey(obj, "value") \/ ~HasKey(obj, "evidence")
           THEN [err |-> VE, val |-> None]
           ELSE LET val == obj.f["value"]
                    ev  == obj.f["evidence"]
                IN  IF val = None
                    THEN [err |-> OK, val |-> ValueEvidence(None, ev)]
                    ELSE IF ~isinstance(val, "str") \/ strip(val.s) = <<>>
                    THEN [err |-> VE, val |-> None]
                    ELSE IF check_citation(ev, num_sources) # OK
                    THEN [err |-> VE, val |-> None]
                    ELSE [err |-> OK,
                          val |-> ValueEvidence(Str(strip(val.s)), Str(pyStr(ev)))]
      [] isinstance(obj, "str") ->
           LET val == strip(obj.s) IN
           IF val = <<>> THEN [err |-> OK, val |-> ValueEvidence(None, None)]
           ELSE IF check_citation(S1, num_sources) # OK THEN [err |-> VE, val |-> None]
           ELSE [err |-> OK, val |-> ValueEvidence(Str(val), S1)]
      [] obj = None -> [err |-> OK, val |-> ValueEvidence(None, None)]
      [] OTHER -> [err |-> VE, val |-> None]

\* _coerce_value_evidence: [err, val]
coerce_value_evidence(obj, num_sources) ==
    CASE isinstance(obj, "obj") ->
           IF ~HasKey(obj, "value") \/ ~HasKey(obj, "evidence")
           THEN [err |-> VE, val |-> None]
           ELSE LET val == obj.f["value"]
                    ev  == obj.f["evidence"]
                IN  IF val = None
                    THEN IF ev # None THEN [err |-> VE, val |-> None]
                         ELSE [err |-> OK, val |-> ValueEvidence(None, None)]
                    ELSE IF ~isinstance(val, "str") \/ strip(val.s) = <<>>
                    THEN [err |-> VE, val |-> None]
                    ELSE IF check_citation(ev, num_sources) # OK
                    THEN [err |-> VE, val |-> None]
                    ELSE [err |-> OK,
                          val |-> ValueEvidence(Str(strip(val.s)), Str(pyStr(ev)))]
      [] isinstance(obj, "str") ->
           LET val == strip(obj.s) IN
           IF val = <<>> THEN [err |-> OK, val |-> ValueEvidence(None, None)]
           ELSE IF check_citation(S1, num_sources) # OK THEN [err |-> VE, val |-> None]
           ELSE [err |-> OK, val |-> ValueEvidence(Str(val), S1)]
      [] obj = None -> [err |-> OK, val |-> ValueEvidence(None, None)]
      [] OTHER -> [err |-> VE, val |-> None]

\* _normalize_other_notes
normalize_other_notes(data) ==
    LET d == IF ~HasKey(data, "other_notes") THEN SetKey(data, "other_notes", None)
             ELSE data
        o == d.f["other_notes"]
    IN  IF o # None /\ ~isinstance(o, "str") THEN SetKey(d, "other_notes", Str(pyStr(o)))
        ELSE d

NegEntry(name, ev)        == Obj([name |-> name, evidence |-> ev])
AdvEntry(name, grade, ev) == Obj([name |-> name, grade |-> grade, evidence |-> ev])

\* the loop of _move_negations_from_adverse_events: [kept, neg]
RECURSIVE MoveLoop(_, _, _)
MoveLoop(adv_list, kept, neg) ==
    IF adv_list = <<>> THEN [kept |-> kept, neg |-> neg]
    ELSE LET it == Head(adv_list)
             rest == Tail(adv_list)
         IN
         IF ~isinstance(it, "obj") THEN MoveLoop(rest, kept, neg)
         ELSE IF HasKey(it, "value") /\ ~HasKey(it, "name")
         THEN LET name == strip(pyStr(Get(it, "value", Str(<<>>))))
                  ev   == Get(it, "evidence", S1)
              IN  IF name # <<>>
                  THEN MoveLoop(rest, Append(kept, AdvEntry(Str(name), None, ev)), neg)
                  ELSE MoveLoop(rest, kept, neg)
         ELSE LET name == strip(pyStr(Get(it, "name", Str(<<>>))))
                  ev   == Get(it, "evidence", S1)
                  m    == NEG_PREFIX_RE_match(name)
              IN  IF m.m
                  THEN LET concept == strip(m.g2) IN
                       MoveLoop(rest, kept,
                           Append(neg, NegEntry(Str(IF concept # <<>> THEN concept ELSE name), ev)))
                  ELSE MoveLoop(rest, Append(kept, it), neg)

\* _move_negations_from_adverse_events
move_negations_from_adverse_events(data) ==
    LET adv_list == as_list(Get(data, "adverse_events", Arr(<<>>)))
        neg      == as_list(Get(data, "negated_findings", Arr(<<>>)))
        r        == MoveLoop(adv_list, <<>>, neg)
    IN  SetKey(SetKey(data, "adverse_events", Arr(r.kept)), "negated_findings", Arr(r.neg))

\* the loop of _normalize_negated_findings: [err, out]
RECURSIVE NegLoop(_, _, _)
NegLoop(neg_list, out, num_sources) ==
    IF neg_list = <<>> THEN [err |-> OK, out |-> out]
    ELSE LET it == Head(neg_list)
             rest == Tail(neg_list)
         IN
         IF isinstance(it, "str")
         THEN NegLoop(rest, Append(out, NegEntry(Str(strip(it.s)), S1)), num_sources)
         ELSE IF ~isinstance(it, "obj") THEN NegLoop(rest, out, num_sources)
         ELSE LET name0 == strip(pyStr(Get(it, "name", Str(<<>>))))
                  ev    == Get(it, "evidence", S1)
                  m     == NEG_PREFIX_RE_match(name0)
                  name  == IF m.m THEN strip(m.g2) ELSE name0
              IN  IF name = <<>> THEN NegLoop(rest, out, num_sources)
                  ELSE IF check_citation(ev, num_sources) # OK
                  THEN [err |-> VE, out |-> <<>>]
                  ELSE NegLoop(rest, Append(out, NegEntry(Str(name), Str(pyStr(ev)))),
                               num_sources)

\* _normalize_negated_findings: [err, data]
normalize_negated_findings(data, num_sources) ==
    LET r == NegLoop(as_list(Get(data, "negated_findings", Arr(<<>>))), <<>>, num_sources)
    IN  IF r.err # OK THEN [err |-> r.err, data |-> None]
        ELSE [err |-> OK, data |-> SetKey(data, "negated_findings", Arr(r.out))]

\* the loop of _normalize_adverse_events: [err, out]
RECURSIVE AdvLoop(_, _, _)
AdvLoop(adv_list, out, num_sources) ==
    IF adv_list = <<>> THEN [err |-> OK, out |-> out]
    ELSE LET it == Head(adv_list)
             rest == Tail(adv_list)
         IN
         IF ~isinstance(it, "obj") THEN AdvLoop(rest, out, num_sources)
         ELSE LET name  == strip(pyStr(Get(it, "name", Str(<<>>))))
                  grade == to_int_or_none(Get(it, "grade", None))
                  ev    == Get(it, "evidence", S1)
              IN  IF grade.err # OK THEN [err |-> grade.err, out |-> <<>>]
                  ELSE IF name = <<>> THEN AdvLoop(rest, out, num_sources)
                  ELSE IF check_citation(ev, num_sources) # OK
                  THEN [err |-> VE, out |-> <<>>]
                  ELSE AdvLoop(rest,
                               Append(out, AdvEntry(Str(name), grade.val, Str(pyStr(ev)))),
                               num_sources)

\* _normalize_adverse_events: [err, data]
normalize_adverse_events(data, num_sources) ==
    LET r == AdvLoop(as_list(Get(data, "adverse_events", Arr(<<>>))), <<>>, num_sources)
    IN  IF r.err # OK THEN [err |-> r.err, data |-> None]
        ELSE [err |-> OK, data |-> SetKey(data, "adverse_events", Arr(r.out))]

\* The completion text handed to the validator: either text that json.loads
\* rejects, or the JSON encoding of the value v.
BadText     == [json |-> FALSE, v |-> Null]
TextOf(v)   == [json |-> TRUE, v |-> v]

\* json.loads(text): [err, val]
json_loads(text) ==
    IF text.json THEN [err |-> OK, val |-> text.v] ELSE [err |-> EXC, val |-> None]

RequiredKeys == {"diagnosis", "treatment", "adverse_events", "negated_findings", "follow_up"}

Raise(e)   == [err |-> e, data |-> None]
Return(d)  == [err |-> OK, data |-> d]

\* validate_json_answer(text, num_sources): [err, data]
validate_json_answer(text, num_sources) ==
    LET parsed == json_loads(text) IN
    IF parsed.err # OK THEN Raise(VE)
    ELSE IF ~isinstance(parsed.val, "obj") THEN Raise(EXC)    \* data.get on a non-dict
    ELSE
    LET data0 == fill_missing_evidence(parsed.val, num_sources) IN
    IF \E key \in RequiredKeys : ~HasKey(data0, key) THEN Raise(VE)
    ELSE
    LET data1 == normalize_other_notes(data0)
        dg == coerce_value_evidence(data1.f["diagnosis"], num_sources)
        tr == coerce_value_evidence(data1.f["treatment"], num_sources)
        fu == coerce_value_evidence(data1.f["follow_up"], num_sources)
    IN
    IF dg.err # OK THEN Raise(dg.err)
    ELSE IF tr.err # OK THEN Raise(tr.err)
    ELSE IF fu.err # OK THEN Raise(fu.err)
    ELSE
    LET data2 == SetKey(SetKey(SetKey(data1, "diagnosis", dg.val),
                                "treatment", tr.val), "follow_up", fu.val)
        data3 == SetKey(SetKey(data2,
                     "negated_findings", Arr(as_list(Get(data2, "negated_findings", Arr(<<>>))))),
                     "adverse_events", Arr(as_list(Get(data2, "adverse_events", Arr(<<>>)))))
        data4 == move_negations_from_adverse_events(data3)
        nf    == normalize_negated_findings(data4, num_sources)
    IN
    IF nf.err # OK THEN Raise(nf.err)
    ELSE LET ae == normalize_adverse_events(nf.data, num_sources) IN
         IF ae.err # OK THEN Raise(ae.err) ELSE Return(ae.data)

(* ------------------------- model answers (inputs) ---------------------- *)
Rash       == <<W(2)>>                       \* "rash"
Pneumo     == <<W(3)>>                       \* "pneumonitis"
NoPneumo   == <<Neg, Sp, W(3)>>              \* "No evidence of pneumonitis"
NoNoPneumo == <<Neg, Sp, Neg, Sp, W(3)>>     \* "No evidence of no sign of pneumonitis"
Stage4     == <<W(5), Sp, W(6)>>             \* "Stage IV NSCLC"
Fatigue    == <<W(9)>>                       \* "fatigue"
S(i)       == Str(<<Cit(i)>>)                \* "[S<i>]"
SeeS1      == Str(<<W(4), Sp, Cit(1)>>)      \* "see [S1]"
Beyond     == MaxSources + 1                 \* a citation index no round supplies

\* elements a model writes into adverse_events
AdvInputs ==
    { Obj([name |-> Str(Rash), grade |-> IntNum(2), evidence |-> S(1)]),
      Obj([name |-> Str(NoPneumo), evidence |-> S(2)]),
      Obj([value |-> Str(NoPneumo), evidence |-> S(1)]),
      Str(Rash),
      Obj([name |-> Str(Rash)]),
      Obj([name |-> Str(Rash), grade |-> Str(<<Digits(3)>>), evidence |-> SeeS1]),
      Obj([name |-> Str(NoNoPneumo), evidence |-> S(1)]),
      Obj([name |-> Str(<<Sp>>), evidence |-> Str(<<W(4)>>)]),
      Obj([name |-> Str(Rash), grade |-> Num(0, "inf"), evidence |-> S(1)]),
      Obj([name |-> Str(Rash), grade |-> Num(1, "frac"), evidence |-> S(Beyond)]) }

\* elements a model writes into negated_findings
NegInputs ==
    { Obj([name |-> Str(Pneumo), evidence |-> S(1)]),
      Str(Pneumo),
      Obj([name |-> Str(NoPneumo), evidence |-> S(2)]),
      Obj([name |-> Str(Pneumo)]),
      Obj([name |-> Str(NoNoPneumo), evidence |-> S(1)]),
      Str(<<>>) }

\* a key the model left out of its JSON object
Absent == [t |-> "absent"]

\* what a model writes as diagnosis / treatment / follow_up
ScalarInputs ==
    { Absent, Null, Str(Stage4), Str(<<Sp>>), IntNum(5), Arr(<<>>),
      Obj([value |-> Str(Stage4)]),
      Obj([evidence |-> S(1)]),
      Obj([value |-> Null, evidence |-> Null]),
      Obj([value |-> Null, evidence |-> S(1)]),
      Obj([value |-> Null, evidence |-> Str(<<>>)]),
      Obj([value |-> Str(<<>>), evidence |-> S(1)]),
      Obj([value |-> IntNum(5), evidence |-> S(1)]),
      Obj([value |-> Str(Stage4), evidence |-> Null]),
      Obj([value |-> Str(Stage4), evidence |-> Str(<<>>)]),
      Obj([value |-> Str(<<Sp>> \o Stage4), evidence |-> S(1)]),
      Obj([value |-> Str(Stage4), evidence |-> S(2)]),
      Obj([value |-> Str(Stage4), evidence |-> S(Beyond)]),
      Obj([value |-> Str(Stage4), evidence |-> S(0)]),
      Obj([value |-> Str(Stage4), evidence |-> SeeS1]),
      Obj([value |-> Str(Stage4), evidence |-> Str(<<W(4)>>)]) }

PlainScalars == { Null, Obj([value |-> Str(Stage4), evidence |-> S(1)]) }

\* other_notes and an extra key "confidence" the schema does not name
NotesInputs == { <<Absent, Absent>>, <<Null, Absent>>,
                 <<Str(<<W(7)>>), IntNum(1)>>, <<IntNum(7), Absent>> }

\* sequences over A of length exactly n
RECURSIVE SeqsOfLen(_, _)
SeqsOfLen(A, n) ==
    IF n = 0 THEN {<<>>}
    ELSE {Append(q, x) : q \in SeqsOfLen(A, n - 1), x \in A}

\* the two lists of an answer, MaxItems elements in total at most
ListPairs(maxItems) ==
    UNION { { <<Arr(a), Arr(n)>> : a \in SeqsOfLen(AdvInputs, i),
                                   n \in SeqsOfLen(NegInputs, j) } :
            <<i, j>> \in {ij \in (0..maxItems) \X (0..maxItems) : ij[1] + ij[2] <= maxItems} }

\* list fields that are not lists: null, a single object, a single string
LooseLists ==
    { <<a, n>> : a \in {Null, Absent, Str(Rash),
                        Obj([name |-> Str(NoPneumo), evidence |-> S(1)]),
                        Obj([name |-> Str(Rash), evidence |-> Null])},
                 n \in {Null, Absent, Str(NoPneumo),
                        Obj([name |-> Str(Pneumo), evidence |-> S(Beyond)])} }

\* the JSON object with the given fields; Absent fields are left out
Answer(dg, tr, fu, ae, nf, notes, extra) ==
    LET all == [diagnosis |-> dg, treatment |-> tr, follow_up |-> fu,
                adverse_events |-> ae, negated_findings |-> nf,
                other_notes |-> notes, confidence |-> extra]
        keys == {x \in DOMAIN all : all[x] # Absent}
    IN  Obj([x \in keys |-> all[x]])

\* answers that vary one scalar field over every shape
ScalarAnswers ==
    { Answer(sc[1], sc[2], sc[3], lp[1], lp[2], ne[1], ne[2]) :
        sc \in (ScalarInputs \X PlainScalars \X PlainScalars)
               \cup (PlainScalars \X ScalarInputs \X PlainScalars)
               \cup (PlainScalars \X PlainScalars \X ScalarInputs),
        lp \in ListPairs(0) \cup LooseLists,
        ne \in NotesInputs }

\* answers that vary the two lists over every combination of elements
ListAnswers ==
    { Answer(dg, Null, Null, lp[1], lp[2], Null, Absent) :
        dg \in PlainScalars, lp \in ListPairs(MaxItems) }

\* JSON that is not an object
NonObjects == { Null, Arr(<<>>), Str(Stage4), IntNum(5) }

TextInputs ==
    {BadText} \cup {TextOf(v) : v \in NonObjects \cup ScalarAnswers \cup ListAnswers}

(* --------------------------- graph_store.py ---------------------------- *)
\* A patient identifier as ask.py passes it: None when --patient_id is not
\* given, otherwise the string.
PyNone    == [none |-> TRUE,  s |-> ""]
PyKey(s)  == [none |-> FALSE, s |-> s]

\* A Python dict keyed by patient identifier: its items in insertion order.
Keys(d)        == {d[i].k : i \in 1..Len(d)}
Lookup(d, key) == d[CHOOSE i \in 1..Len(d) : d[i].k = key].v
\* d[key] = v (a new key goes last, an existing key keeps its place)
Put(d, key, v) ==
    IF key \in Keys(d)
    THEN [i \in 1..Len(d) |-> IF d[i].k = key THEN [k |-> key, v |-> v] ELSE d[i]]
    ELSE Append(d, [k |-> key, v |-> v])
\* dict == dict
DictEq(a, b) == {a[i] : i \in 1..Len(a)} = {b[i] : i \in 1..Len(b)}

\* PatientGraph.__init__: self.graph = {"patients": {}}
EmptyGraph == [patients |-> <<>>]

DefaultEntry ==
    [diagnosis |-> None, treatment |-> None, adverse_events |-> <<>>,
     negated_findings |-> <<>>, follow_up |-> None]

\* add_patient without its "if patient_id not in ...": the entry is always reset
add_patient_always(g, patient_id) ==
    [patients |-> Put(g.patients, patient_id, DefaultEntry)]

\* PatientGraph.add_patient
add_patient(g, patient_id) ==
    IF patient_id \notin Keys(g.patients)
    THEN [patients |-> Put(g.patients, patient_id, DefaultEntry)]
    ELSE g

\* the loop with its test on the name alone:
\* "if x["name"] not in [e["name"] for e in lst]"
RECURSIVE AppendNew_ByName(_, _)
AppendNew_ByName(lst, xs) ==
    IF xs = <<>> THEN lst
    ELSE AppendNew_ByName(IF \E i \in 1..Len(lst) : lst[i].f["name"] = Head(xs).f["name"]
                          THEN lst ELSE Append(lst, Head(xs)),
                          Tail(xs))

\* the loop with "lst.insert(0, x)" for "lst.append(x)"
RECURSIVE AppendNew_Front(_, _)
AppendNew_Front(lst, xs) ==
    IF xs = <<>> THEN lst
    ELSE AppendNew_Front(IF \E i \in 1..Len(lst) : lst[i] = Head(xs) THEN lst
                         ELSE <<Head(xs)>> \o lst,
                         Tail(xs))

\* the loop without its "not in" test
AppendNew_All(lst, xs) == lst \o xs

\* the loop with its test inverted: "if x in lst"
AppendNew_Inverted(lst, xs) ==
    lst \o SelectSeq(xs, LAMBDA x : \E i \in 1..Len(lst) : lst[i] = x)

\* "for x in xs: if x not in lst: lst.append(x)"
RECURSIVE AppendNew(_, _)
AppendNew(lst, xs) ==
    IF xs = <<>> THEN lst
    ELSE AppendNew(IF \E i \in 1..Len(lst) : lst[i] = Head(xs) THEN lst
                   ELSE Append(lst, Head(xs)),
                   Tail(xs))

\* the assignment without its "if": p[key] = data[key]
MergeScalar_Always(old, data, key) == data.f[key]

\* "if data.get(key, {}).get("value"): p[key] = data[key]"
MergeScalar(old, data, key) ==
    IF Truthy(Get(Get(data, key, Obj(<<>>)), "value", None)) THEN data.f[key] ELSE old

\* PatientGraph.update_from_validated_json
update_from_validated_json(g, patient_id, data) ==
    LET g1 == add_patient(g, patient_id)
        p  == Lookup(g1.patients, patient_id)
        p1 == [diagnosis |-> MergeScalar(p.diagnosis, data, "diagnosis"),
               treatment |-> MergeScalar(p.treatment, data, "treatment"),
               adverse_events |->
                   AppendNew(p.adverse_events, Get(data, "adverse_events", Arr(<<>>)).a),
               negated_findings |->
                   AppendNew(p.negated_findings, Get(data, "negated_findings", Arr(<<>>)).a),
               follow_up |-> MergeScalar(p.follow_up, data, "follow_up")]
    IN  [patients |-> Put(g1.patients, patient_id, p1)]

\* The graph document on disk: no file, or the members of the "patients"
\* object in the order written (JSON text may repeat a member name).
NoFile == [exists |-> FALSE, partial |-> FALSE, members |-> <<>>]
FileOf(members) == [exists |-> TRUE, partial |-> FALSE, members |-> members]
\* open(path, "w") has truncated the file and json.dump has not written yet
Truncated == [exists |-> TRUE, partial |-> TRUE, members |-> <<>>]

\* json.dump writes a dict key as a JSON member name: None becomes "null"
JsonKey(key) == IF key.none THEN "null" ELSE key.s

\* json.dump(self.graph, f): entries hold only None, str, int, list and dict
\* with str keys, which are written as they are
json_dump(g) ==
    FileOf([i \in 1..Len(g.patients) |->
              [k |-> JsonKey(g.patients[i].k), v |-> g.patients[i].v]])

\* json.load(f): a repeated member name keeps its first place and its last value
RECURSIVE LoadMembers(_, _)
LoadMembers(members, d) ==
    IF members = <<>> THEN d
    ELSE LoadMembers(Tail(members), Put(d, PyKey(Head(members).k), Head(members).v))

\* PatientGraph.save: the file after the write
save(g) == json_dump(g)

\* PatientGraph.load: [err, g]; json.load raises on text that is not a document
load(f) ==
    IF ~f.exists THEN [err |-> OK, g |-> EmptyGraph]
    ELSE IF f.partial THEN [err |-> EXC, g |-> EmptyGraph]
    ELSE [err |-> OK, g |-> [patients |-> LoadMembers(f.members, <<>>)]]

(* ---------------------------- guardrails.py ---------------------------- *)
\* A question or passage, lower-cased and stripped, is its sequence of words
\* (each made of a-z, 0-9 and "-"), single blanks between them; a question may
\* end in "?".
STOPWORDS == {"is", "are", "was", "were", "present", "evidence", "of", "the",
              "a", "an", "in", "no"}

\* words whose last two letters are "is": the first template starts at one
EndsInIs == {"is", "pneumonitis"}

\* "no focus term" / the term as its sequence of words
NoTerm == <<>>

\* re.search(r"is\s+([a-z0-9\- ]+?)\s+present\??$", q): the leftmost start
IsPresentStarts(q) ==
    {i \in 1..Len(q) : q[i] \in EndsInIs /\ i + 1 <= Len(q) - 1 /\ q[Len(q)] = "present"}

\* re.search(r"evidence of\s+([a-z0-9\- ]+?)\??$", q): the leftmost start
EvidenceOfStarts(q) ==
    {i \in 1..(Len(q) - 2) : q[i] = "evidence" /\ q[i + 1] = "of"}

Min(A) == CHOOSE x \in A : \A y \in A : x <= y

\* "term and term not in STOPWORDS"
Usable(term) == term # <<>> /\ ~(Len(term) = 1 /\ term[1] \in STOPWORDS)

\* str.lower() of a word: the words written with a capital in this model
LowerWord(w) ==
    CASE w = "Is"   -> "is"
      [] w = "Rash" -> "rash"
      [] OTHER      -> w

\* question.strip().lower(); a sequence of words has no blanks at its ends
lower(question) == [i \in 1..Len(question) |-> LowerWord(question[i])]

\* extract_focus_term(question): the term, or NoTerm for None
extract_focus_term(question) ==
    LET q  == lower(question)
        m1 == IsPresentStarts(q)
        t1 == IF m1 = {} THEN <<>> ELSE SubSeq(q, Min(m1) + 1, Len(q) - 1)
        m2 == EvidenceOfStarts(q)
        t2 == IF m2 = {} THEN <<>> ELSE SubSeq(q, Min(m2) + 2, Len(q))
    IN  IF m1 # {} /\ Usable(t1) THEN t1
        ELSE IF m2 # {} /\ Usable(t2) THEN t2
        ELSE NoTerm

\* "term in text": term occurs in text as a run of consecutive words
Occurs(term, txt) ==
    \E i \in 0..(Len(txt) - Len(term)) : SubSeq(txt, i + 1, i + Len(term)) = term

\* sources_contain_term returning True after the loop
sources_contain_term_default_true(hits, term) == TRUE

\* sources_contain_term(hits, term)
sources_contain_term(hits, term) ==
    IF term = <<>> THEN TRUE
    ELSE \E i \in 1..Len(hits) : Occurs(term, hits[i].text)

(* -------------------------------- ask.py -------------------------------- *)
\* strip_json_fence: the completion without its surrounding ``` fence
strip_json_fence(answer) == answer.body

\* the fixed answer of the guardrail branch of main
EmptyAnswer(focus) ==
    Obj([diagnosis |-> ValueEvidence(None, None),
         treatment |-> ValueEvidence(None, None),
         adverse_events |-> Arr(<<>>),
         negated_findings |-> Arr(<<>>),
         follow_up |-> ValueEvidence(None, None),
         other_notes |-> Str(<<"'">> \o focus \o <<"' not mentioned in sources.">>)])

(* ------------------------------- state --------------------------------- *)
VARIABLES
    text, num_sources,   \* the arguments of a validate_json_answer call
    result,              \* what the call returned or raised
    vpc,                 \* "call" before, "done" after, "idle" when unused
    graph,               \* PatientGraph.graph of the running process
    file,                \* data/graph/patient_graph.json
    hist,                \* the last two PatientGraph calls, latest last
    before,              \* graph as it was before the latest call
    nops,                \* number of PatientGraph calls made
    rounds,              \* the runs of ask.main: where each is and its locals
    lastWriter,          \* the run whose json.dump wrote the file last
    question,            \* the argument of an extract_focus_term call
    focus_term,          \* what the call returned
    fpc,                 \* "call" before, "done" after, "idle" when unused
    nrounds,             \* runs of ask.main started one after another
    ledger               \* what the finished ones of those runs merged and saved

vvars == <<text, num_sources, result, vpc>>
gvars == <<graph, hist, before, nops>>
avars == <<rounds, lastWriter>>
fvars == <<question, focus_term, fpc>>
svars == <<nrounds, ledger>>
vars  == <<text, num_sources, result, vpc, graph, file, hist, before, nops,
           rounds, lastWriter, question, focus_term, fpc, nrounds, ledger>>

NoResult == [err |-> "pending", data |-> None]

IdleValidate ==
    /\ text = BadText /\ num_sources = 0 /\ result = NoResult /\ vpc = "idle"

IdleGraph ==
    /\ graph = EmptyGraph /\ hist = <<>>
    /\ before = EmptyGraph /\ nops = 0

IdleAsk ==
    /\ rounds = <<>> /\ lastWriter = "none"

IdleFocus ==
    /\ question = <<>> /\ focus_term = NoTerm /\ fpc = "idle"

NoLedger == [lists |-> {}, scalars |-> {}]

IdleSeq ==
    /\ nrounds = 0 /\ ledger = NoLedger

(* ---------------- validate_json_answer on every model answer ----------- *)
\* a call validate_json_answer(text, num_sources) about to be made
InitValidate ==
    /\ text \in TextInputs
    /\ num_sources \in 0..MaxSources
    /\ result = NoResult
    /\ vpc = "call"
    /\ IdleGraph /\ file = NoFile
    /\ IdleAsk /\ IdleFocus /\ IdleSeq

\* the call returns or raises
Validate ==
    /\ vpc = "call"
    /\ result' = validate_json_answer(text, num_sources)
    /\ vpc' = "done"
    /\ UNCHANGED <<text, num_sources, file>>
    /\ UNCHANGED gvars
    /\ UNCHANGED avars
    /\ UNCHANGED fvars
    /\ UNCHANGED svars

SpecValidate == InitValidate /\ [][Validate]_vars

Returned == vpc = "done" /\ result.err = OK
Raised   == vpc = "done" /\ result.err # OK

(* ---------------- extract_focus_term on every question ---------------- *)
\* the words questions are made of, and how long a question gets
Words == {"Is", "the", "present", "evidence", "of", "Rash", "pneumonitis"}
\* the questions of n words
QuestionInputs(n) == [1..n -> Words]

\* a call extract_focus_term(question) about to be made
InitFocus ==
    /\ \E n \in 1..MaxWords : question \in QuestionInputs(n)
    /\ focus_term = NoTerm
    /\ fpc = "call"
    /\ IdleValidate
    /\ IdleGraph /\ file = NoFile
    /\ IdleAsk /\ IdleSeq

\* the call returns
ExtractFocus ==
    /\ fpc = "call"
    /\ focus_term' = extract_focus_term(question)
    /\ fpc' = "done"
    /\ UNCHANGED <<question, file>>
    /\ UNCHANGED vvars
    /\ UNCHANGED gvars
    /\ UNCHANGED avars
    /\ UNCHANGED svars

SpecFocus == InitFocus /\ [][ExtractFocus]_vars

(* ------------------- PatientGraph under any call sequence -------------- *)
\* the identifiers ask.py can pass: no --patient_id, "P001", and "null"
PatientIds == {PyNone, PyKey("P001"), PyKey("null")}

\* FactObjects the validator returns (num_sources = 2)
Fact(ans) == validate_json_answer(TextOf(ans), 2).data
RashG2    == Obj([name |-> Str(Rash), grade |-> IntNum(2), evidence |-> S(1)])
FactInputs ==
    { \* a diagnosis and one adverse event
      Fact(Answer(Obj([value |-> Str(Stage4), evidence |-> S(1)]), Null, Null,
                  Arr(<<RashG2>>), Arr(<<>>), Null, Absent)),
      \* no scalar; the same adverse event twice and a negated finding
      Fact(Answer(Null, Null, Null,
                  Arr(<<RashG2, RashG2>>),
                  Arr(<<Obj([name |-> Str(NoPneumo), evidence |-> S(2)])>>), Null, Absent)),
      \* the diagnosis cited differently, a follow-up, the event with another
      \* grade and a second event, the negated finding with another citation
      Fact(Answer(Obj([value |-> Str(Stage4), evidence |-> S(2)]), Null, Str(<<W(8)>>),
                  Arr(<<Obj([name |-> Str(Rash), grade |-> IntNum(3), evidence |-> S(1)]),
                        Obj([name |-> Str(Fatigue), grade |-> IntNum(1), evidence |-> S(2)])>>),
                  Arr(<<Obj([name |-> Str(Pneumo), evidence |-> S(1)])>>), Null, Absent)),
      \* nothing found
      Fact(Answer(Null, Null, Null, Arr(<<>>), Arr(<<>>), Str(<<W(7)>>), Absent)) }

Call(op, pid, f) == [op |-> op, pid |-> pid, f |-> f]
Record(c) == IF Len(hist) < 2 THEN Append(hist, c) ELSE <<hist[2], c>>
Last == hist[Len(hist)]
Prev == hist[Len(hist) - 1]

InitGraph ==
    /\ IdleValidate
    /\ IdleGraph /\ file = NoFile
    /\ IdleAsk /\ IdleFocus /\ IdleSeq

AddPatient(pid) ==
    /\ nops < MaxOps
    /\ graph' = add_patient(graph, pid)
    /\ before' = graph
    /\ hist' = Record(Call("add_patient", pid, None))
    /\ nops' = nops + 1
    /\ UNCHANGED file
    /\ UNCHANGED vvars
    /\ UNCHANGED avars
    /\ UNCHANGED fvars
    /\ UNCHANGED svars

Update(pid, f) ==
    /\ nops < MaxOps
    /\ graph' = update_from_validated_json(graph, pid, f)
    /\ before' = graph
    /\ hist' = Record(Call("update", pid, f))
    /\ nops' = nops + 1
    /\ UNCHANGED file
    /\ UNCHANGED vvars
    /\ UNCHANGED avars
    /\ UNCHANGED fvars
    /\ UNCHANGED svars

Save ==
    /\ nops < MaxOps
    /\ file' = save(graph)
    /\ before' = graph
    /\ hist' = Record(Call("save", PyNone, None))
    /\ nops' = nops + 1
    /\ UNCHANGED graph
    /\ UNCHANGED vvars
    /\ UNCHANGED avars
    /\ UNCHANGED fvars
    /\ UNCHANGED svars

\* save(path) where json.dump raises after open(path, "w"): an OSError while
\* writing, or a value in the graph that json cannot encode
SaveFails ==
    /\ nops < MaxOps
    /\ file' = Truncated
    /\ before' = graph
    /\ hist' = Record(Call("save_failed", PyNone, None))
    /\ nops' = nops + 1
    /\ UNCHANGED graph
    /\ UNCHANGED vvars
    /\ UNCHANGED avars
    /\ UNCHANGED fvars
    /\ UNCHANGED svars

\* graph = PatientGraph.load(path); when json.load raises, graph stays bound
\* to what it was
Load ==
    /\ nops < MaxOps
    /\ graph' = IF load(file).err = OK THEN load(file).g ELSE graph
    /\ before' = graph
    /\ hist' = Record(Call(IF load(file).err = OK THEN "load" ELSE "load_failed",
                           PyNone, None))
    /\ nops' = nops + 1
    /\ UNCHANGED file
    /\ UNCHANGED vvars
    /\ UNCHANGED avars
    /\ UNCHANGED fvars
    /\ UNCHANGED svars

NextGraph ==
    \/ \E pid \in PatientIds : AddPatient(pid)
    \/ \E pid \in PatientIds, f \in FactInputs : Update(pid, f)
    \/ Save
    \/ SaveFails
    \/ Load

SpecGraph == InitGraph /\ [][NextGraph]_vars

(* ------------------- two runs of ask.main on one graph file ------------ *)
Rounds == {"r1", "r2"}

Questions ==
    { <<"is", "pneumonitis", "present">>,
      <<"what", "adverse", "events", "are", "mentioned">>,
      <<"is", "there", "evidence", "of", "rash">> }

AskPatients == {PyNone, PyKey("P001")}

Hit(txt) == [text |-> txt]
\* what retrieve returns: nothing, one passage, two passages
HitsInputs ==
    { <<>>,
      <<Hit(<<"grade", "2", "pneumonitis", "and", "rash">>)>>,
      <<Hit(<<"stage", "iv", "nsclc">>), Hit(<<"treated", "with", "pembrolizumab">>)>> }

\* what the model completes: a fenced and a bare answer, an answer with
\* another diagnosis given as a bare string, text that is not JSON, JSON that
\* is not an object
Completion(fenced, body) == [fenced |-> fenced, body |-> body]
AnswerInputs ==
    { Completion(TRUE, TextOf(Answer(Obj([value |-> Str(Stage4), evidence |-> S(1)]),
                                     Null, Null, Arr(<<RashG2>>), Arr(<<>>), Null, Absent))),
      Completion(FALSE, TextOf(Answer(Null, Null, Null, Arr(<<>>),
                                      Arr(<<Obj([name |-> Str(NoPneumo)])>>), Null, Absent))),
      Completion(FALSE, TextOf(Answer(Str(Pneumo), Null, Null, Arr(<<>>), Arr(<<>>),
                                      Null, Absent))),
      Completion(FALSE, BadText),
      Completion(FALSE, TextOf(Arr(<<>>))) }

\* what the run has printed as its structured answer
Printed(what, obj) == [what |-> what, obj |-> obj]

NewRound(q, pid) ==
    [pc |-> "retrieve", question |-> q, patient_id |-> pid, hits |-> <<>>,
     focus |-> NoTerm, seen |-> NoFile, graph |-> EmptyGraph,
     answer |-> Completion(FALSE, BadText), parsed |-> None,
     printed |-> Printed("nothing", None), called |-> {}]

InitAsk ==
    /\ IdleValidate
    /\ IdleGraph
    /\ file = NoFile
    /\ lastWriter = "none"
    /\ IdleFocus /\ IdleSeq
    /\ rounds \in [Rounds -> {NewRound(q, pid) : q \in Questions, pid \in AskPatients}]

Step(r, new) == rounds' = [rounds EXCEPT ![r] = new]
Quiet == UNCHANGED vvars /\ UNCHANGED gvars /\ UNCHANGED fvars /\ UNCHANGED svars

\* hits = retrieve(...); "if not hits: return"
Retrieve(r) ==
    /\ rounds[r].pc = "retrieve"
    /\ \E h \in HitsInputs :
          Step(r, [rounds[r] EXCEPT !.hits = h,
                                    !.pc = IF h = <<>> THEN "done" ELSE "guardrail"])
    /\ UNCHANGED <<file, lastWriter>> /\ Quiet

\* the guardrail block of main: print the empty answer and return, or go on
Guardrail(r) ==
    /\ rounds[r].pc = "guardrail"
    /\ LET focus == extract_focus_term(rounds[r].question) IN
       IF focus # NoTerm /\ ~sources_contain_term(rounds[r].hits, focus)
       THEN Step(r, [rounds[r] EXCEPT !.focus = focus, !.pc = "done",
                                     !.printed = Printed("empty", EmptyAnswer(focus))])
       ELSE Step(r, [rounds[r] EXCEPT !.focus = focus, !.pc = "load"])
    /\ UNCHANGED <<file, lastWriter>> /\ Quiet

\* graph = PatientGraph.load(path)
LoadGraph(r) ==
    /\ rounds[r].pc = "load"
    /\ LET l == load(file) IN
       IF l.err = OK
       THEN Step(r, [rounds[r] EXCEPT !.graph = l.g, !.seen = file, !.pc = "llm"])
       ELSE Step(r, [rounds[r] EXCEPT !.seen = file, !.pc = "crashed"])
    /\ UNCHANGED <<file, lastWriter>> /\ Quiet

\* answer = chat_completion(...): a completion, or LLMError
CallModel(r) ==
    /\ rounds[r].pc = "llm"
    /\ \/ \E a \in AnswerInputs :
             Step(r, [rounds[r] EXCEPT !.answer = a, !.pc = "validate",
                                       !.called = @ \cup {"model"}])
       \/ Step(r, [rounds[r] EXCEPT !.pc = "crashed", !.called = @ \cup {"model"}])
    /\ UNCHANGED <<file, lastWriter>> /\ Quiet

\* the try block without its "except ValidationError": the exception ends the run
ValidateAnswer_Uncaught(r) ==
    /\ rounds[r].pc = "validate"
    /\ LET v == validate_json_answer(strip_json_fence(rounds[r].answer),
                                     Len(rounds[r].hits))
       IN  Step(r, [rounds[r] EXCEPT
                      !.parsed = v.data,
                      !.called = @ \cup {"validator"},
                      !.pc = IF v.err = OK THEN "merge" ELSE "crashed"])
    /\ UNCHANGED <<file, lastWriter>> /\ Quiet

\* parsed = validate_json_answer(strip_json_fence(answer), num_sources=len(hits))
ValidateAnswer(r) ==
    /\ rounds[r].pc = "validate"
    /\ LET v == validate_json_answer(strip_json_fence(rounds[r].answer),
                                     Len(rounds[r].hits))
       IN  Step(r, [rounds[r] EXCEPT
                      !.parsed = v.data,
                      !.called = @ \cup {"validator"},
                      !.printed = IF v.err = VE THEN Printed("failure", None) ELSE @,
                      !.pc = CASE v.err = OK -> "merge"
                               [] v.err = VE -> "sources"
                               [] OTHER      -> "crashed"])
    /\ UNCHANGED <<file, lastWriter>> /\ Quiet

\* graph.update_from_validated_json(args.patient_id, parsed)
Merge(r) ==
    /\ rounds[r].pc = "merge"
    /\ Step(r, [rounds[r] EXCEPT
                  !.graph = update_from_validated_json(@, rounds[r].patient_id,
                                                       rounds[r].parsed),
                  !.called = @ \cup {"update"},
                  !.pc = "save"])
    /\ UNCHANGED <<file, lastWriter>> /\ Quiet

\* graph.save(path), first half: open(path, "w") truncates the file
SaveOpen(r) ==
    /\ rounds[r].pc = "save"
    /\ file' = Truncated
    /\ Step(r, [rounds[r] EXCEPT !.called = @ \cup {"save"}, !.pc = "dump"])
    /\ UNCHANGED lastWriter /\ Quiet

\* graph.save(path), second half: json.dump writes the document
SaveDump(r) ==
    /\ rounds[r].pc = "dump"
    /\ file' = save(rounds[r].graph)
    /\ lastWriter' = r
    /\ Step(r, [rounds[r] EXCEPT !.pc = "print"])
    /\ Quiet

\* graph.save(path), second half, where json.dump raises: the exception is not
\* caught in main, the file stays as far as it was written
SaveDumpFails(r) ==
    /\ rounds[r].pc = "dump"
    /\ Step(r, [rounds[r] EXCEPT !.pc = "crashed"])
    /\ UNCHANGED <<file, lastWriter>> /\ Quiet

\* print(json.dumps(parsed, indent=2))
PrintParsed(r) ==
    /\ rounds[r].pc = "print"
    /\ Step(r, [rounds[r] EXCEPT !.printed = Printed("parsed", rounds[r].parsed),
                                !.pc = "sources"])
    /\ UNCHANGED <<file, lastWriter>> /\ Quiet

\* the loop that prints the sources; main returns
PrintSources(r) ==
    /\ rounds[r].pc = "sources"
    /\ Step(r, [rounds[r] EXCEPT !.pc = "done"])
    /\ UNCHANGED <<file, lastWriter>> /\ Quiet

NextAsk ==
    \E r \in Rounds :
        \/ Retrieve(r)
        \/ Guardrail(r)
        \/ LoadGraph(r)
        \/ CallModel(r)
        \/ ValidateAnswer(r)
        \/ Merge(r)
        \/ SaveOpen(r)
        \/ SaveDump(r)
        \/ SaveDumpFails(r)
        \/ PrintParsed(r)
        \/ PrintSources(r)

SpecAsk == InitAsk /\ [][NextAsk]_vars

(* ------------- runs of ask.main one after another on one file ---------- *)
\* batch_eval.py: each run is a process of its own that ends before the next
\* starts; "r1" is the run in progress
SeqRounds == {"r1"}

\* the run in progress has merged a FactObject and saved the graph
Merged(r) == "save" \in rounds[r].called /\ rounds[r].pc \in {"print", "sources", "done"}

\* the ledger with what run r saved: every list entry it merged, and for
\* each scalar the ValueFact of the latest run that gave a value
Booked(r) ==
    IF ~Merged(r) THEN ledger
    ELSE LET pid == rounds[r].patient_id
             f   == rounds[r].parsed
             given == {key \in {"diagnosis", "treatment", "follow_up"} :
                          f.f[key].f["value"] # Null}
         IN  [lists |-> ledger.lists \cup
                          {<<pid, key, f.f[key].a[i]>> :
                              key \in {"adverse_events"}, i \in 1..Len(f.f["adverse_events"].a)}
                          \cup
                          {<<pid, key, f.f[key].a[i]>> :
                              key \in {"negated_findings"}, i \in 1..Len(f.f["negated_findings"].a)},
              scalars |-> {x \in ledger.scalars : ~(x[1] = pid /\ x[2] \in given)}
                          \cup {<<pid, key, f.f[key]>> : key \in given}]

InitSeq ==
    /\ IdleValidate
    /\ IdleGraph
    /\ IdleFocus
    /\ file = NoFile
    /\ lastWriter = "none"
    /\ nrounds = 1
    /\ ledger = NoLedger
    /\ rounds \in [SeqRounds -> {NewRound(q, pid) : q \in Questions, pid \in AskPatients}]

\* the loop of batch_eval.py: subprocess.run(cmd, check=False) has returned,
\* whatever the exit status, and the next run starts
StartNext ==
    /\ nrounds < MaxRounds
    /\ rounds["r1"].pc \in {"done", "crashed"}
    /\ ledger' = Booked("r1")
    /\ nrounds' = nrounds + 1
    /\ \E q \in Questions, pid \in AskPatients : Step("r1", NewRound(q, pid))
    /\ UNCHANGED <<file, lastWriter>>
    /\ UNCHANGED vvars
    /\ UNCHANGED gvars
    /\ UNCHANGED fvars

\* every save succeeds: SaveDumpFails is not a step of these runs
NextSeq ==
    \/ \E r \in SeqRounds :
          \/ Retrieve(r)
          \/ Guardrail(r)
          \/ LoadGraph(r)
          \/ CallModel(r)
          \/ ValidateAnswer(r)
          \/ Merge(r)
          \/ SaveOpen(r)
          \/ SaveDump(r)
          \/ PrintParsed(r)
          \/ PrintSources(r)
    \/ StartNext

SpecSeq == InitSeq /\ [][NextSeq]_vars

(* ======================= claims on the validator ======================= *)
ScalarFields == {"diagnosis", "treatment", "follow_up"}
Out(d, key)  == d.f[key]
OutList(d, key) == d.f[key].a

\* the string ev is exactly "[S<k>]" with 1 <= k <= n
ExactCitation(ev, n) ==
    /\ ev.t = "str"
    /\ Len(ev.s) = 1
    /\ ev.s[1].k = "cit"
    /\ 1 <= ev.s[1].i /\ ev.s[1].i <= n

\* s starts, after blanks, with a negation phrase followed by a concept
HasNegationPrefix(s) ==
    LET a == lstrip(s) IN
    /\ Len(a) >= 3
    /\ a[1] = Neg /\ a[2] = Sp
    /\ \E i \in 3..Len(a) : a[i] # Sp

\* the concept that follows the negation phrase of s
Concept(s) == strip(Tail(lstrip(s)))

\* C1: every retained fact of a returned FactObject carries an evidence string
\* that is exactly "[S<k>]" with 1 <= k <= num_sources.
C1_ExactCitationEverywhere ==
    Returned =>
      /\ \A key \in ScalarFields :
            Out(result.data, key).f["value"] # None =>
                ExactCitation(Out(result.data, key).f["evidence"], num_sources)
      /\ \A key \in {"adverse_events", "negated_findings"} :
            \A i \in 1..Len(OutList(result.data, key)) :
                ExactCitation(OutList(result.data, key)[i].f["evidence"], num_sources)

\* C2: no adverse_events entry of a returned FactObject has a name that starts
\* with a negation phrase followed by a concept.
C2_NoNegatedAdverseEvent ==
    Returned =>
      \A i \in 1..Len(OutList(result.data, "adverse_events")) :
          ~HasNegationPrefix(OutList(result.data, "adverse_events")[i].f["name"].s)

\* the answer with element i of its adverse_events list taken out
RemoveAt(q, i) == SubSeq(q, 1, i - 1) \o SubSeq(q, i + 1, Len(q))
WithoutAdverse(i) ==
    TextOf(SetKey(text.v, "adverse_events",
                  Arr(RemoveAt(text.v.f["adverse_events"].a, i))))

\* the named adverse_events elements of the input that carry a valid citation
NamedAdverse ==
    IF text.json /\ text.v.t = "obj" /\ HasKey(text.v, "adverse_events")
       /\ text.v.f["adverse_events"].t = "arr"
    THEN {i \in 1..Len(text.v.f["adverse_events"].a) :
            LET it == text.v.f["adverse_events"].a[i] IN
            /\ it.t = "obj" /\ HasKey(it, "name") /\ it.f["name"].t = "str"
            /\ strip(it.f["name"].s) # <<>>
            /\ HasKey(it, "evidence") /\ ExactCitation(it.f["evidence"], num_sources)}
    ELSE {}

\* element i is filed under negated_findings as `name` with its own evidence,
\* and under adverse_events not at all
Reclassified(i, name) ==
    LET it == text.v.f["adverse_events"].a[i] IN
    /\ \E j \in 1..Len(OutList(result.data, "negated_findings")) :
          OutList(result.data, "negated_findings")[j] = NegEntry(Str(name), it.f["evidence"])
    /\ validate_json_answer(WithoutAdverse(i), num_sources).data.f["adverse_events"]
          = Out(result.data, "adverse_events")

\* element i stays under adverse_events and adds nothing to negated_findings
Kept(i) ==
    LET it == text.v.f["adverse_events"].a[i] IN
    /\ \E j \in 1..Len(OutList(result.data, "adverse_events")) :
          LET e == OutList(result.data, "adverse_events")[j] IN
          e.f["name"] = Str(strip(it.f["name"].s)) /\ e.f["evidence"] = it.f["evidence"]
    /\ validate_json_answer(WithoutAdverse(i), num_sources).data.f["negated_findings"]
          = Out(result.data, "negated_findings")

\* C3 as stated: a named adverse event "<negation phrase> X" with evidence E is
\* returned as {name: X, evidence: E} in negated_findings and not in
\* adverse_events; any other named adverse event stays in adverse_events.
C3_MovedWithPrefixStripped ==
    Returned =>
      \A i \in NamedAdverse :
          LET name == text.v.f["adverse_events"].a[i].f["name"].s IN
          IF HasNegationPrefix(name) THEN Reclassified(i, Concept(name)) ELSE Kept(i)

\* C3 (amended): as C3, but when X itself starts with a negation phrase followed
\* by a concept, the entry's name is X with that one further phrase stripped.
C3_MovedWithPrefixesStripped ==
    Returned =>
      \A i \in NamedAdverse :
          LET name == text.v.f["adverse_events"].a[i].f["name"].s
              X    == Concept(name)
          IN  IF HasNegationPrefix(name)
              THEN Reclassified(i, IF HasNegationPrefix(X) THEN Concept(X) ELSE X)
              ELSE Kept(i)

\* the spec's example: "No evidence of pneumonitis" cited [S2], next to a
\* positive finding that stays
C3_Witness ==
    /\ Returned
    /\ \E i, j \in NamedAdverse :
          /\ text.v.f["adverse_events"].a[i].f["name"] = Str(NoPneumo)
          /\ text.v.f["adverse_events"].a[i].f["evidence"] = S(2)
          /\ ~HasNegationPrefix(text.v.f["adverse_events"].a[j].f["name"].s)
    /\ OutList(result.data, "negated_findings") = <<NegEntry(Str(Pneumo), S(2))>>
    /\ Len(OutList(result.data, "adverse_events")) = 1

\* C4: validate_json_answer returns a FactObject or raises ValidationError,
\* nothing else.
C4_OnlyValidationError ==
    vpc = "done" => result.err \in {OK, VE}

\* an input scalar object with value null and evidence not null
NullValueWithEvidence(x) ==
    /\ x.t = "obj" /\ HasKey(x, "value") /\ HasKey(x, "evidence")
    /\ x.f["value"] = Null /\ x.f["evidence"] # Null

\* C5: in a returned FactObject each scalar is a {value, evidence} record with
\* evidence non-null iff value non-null; an input scalar with value null and a
\* non-null evidence is rejected with ValidationError.
C5_EvidenceIffValue ==
    /\ Returned =>
          \A key \in ScalarFields :
              LET x == Out(result.data, key) IN
              /\ x.t = "obj" /\ DOMAIN x.f = {"value", "evidence"}
              /\ (x.f["evidence"] # None) <=> (x.f["value"] # None)
    /\ (vpc = "done" /\ text.json /\ text.v.t = "obj"
        /\ \E key \in ScalarFields :
              HasKey(text.v, key) /\ NullValueWithEvidence(text.v.f[key]))
          => result.err = VE

\* a diagnosis cited [S2] next to a treatment given as {value: null,
\* evidence: null}
C5_Witness ==
    /\ Returned
    /\ Out(result.data, "diagnosis").f["value"] = Str(Stage4)
    /\ Out(result.data, "diagnosis").f["evidence"] = S(1)
    /\ text.v.f["treatment"] = Obj([value |-> Null, evidence |-> Null])
    /\ Out(result.data, "treatment") = Obj([value |-> Null, evidence |-> Null])

(* ====================== claims on the PatientGraph ====================== *)
\* the entry of pid in g, None when pid has none
EntryOf(g, pid) ==
    IF \E i \in 1..Len(g.patients) : g.patients[i].k = pid
    THEN Lookup(g.patients, pid) ELSE DefaultEntry

\* C6: update_from_validated_json(id, f) called twice in a row leaves the entry
\* of id (both lists and the three scalars) as it was after the first call.
C6_UpdateIdempotent ==
    /\ (Len(hist) = 2 /\ Last.op = "update" /\ Prev = Last)
          => EntryOf(graph, Last.pid) = EntryOf(before, Last.pid)
    /\ \A pid \in PatientIds, f \in FactInputs :
          LET once == update_from_validated_json(graph, pid, f) IN
          EntryOf(update_from_validated_json(once, pid, f), pid) = EntryOf(once, pid)

\* the second of two equal calls, on an entry that already held other facts,
\* with a FactObject that repeats an adverse event
C6_Witness ==
    /\ Len(hist) = 2 /\ Last.op = "update" /\ Prev = Last
    /\ Len(Last.f.f["adverse_events"].a) = 2
    /\ Len(Last.f.f["negated_findings"].a) = 1
    /\ EntryOf(graph, Last.pid).diagnosis # None
    /\ Len(EntryOf(graph, Last.pid).adverse_events) = 1

\* C7: for each of diagnosis, treatment and follow_up the stored scalar becomes
\* the incoming ValueFact when its value is non-null and stays as it was when
\* the incoming value is null.
C7_ScalarsMonotonic ==
    (hist # <<>> /\ Last.op = "update") =>
        \A key \in ScalarFields :
            EntryOf(graph, Last.pid)[key] =
                IF Last.f.f[key].f["value"] # Null THEN Last.f.f[key]
                ELSE EntryOf(before, Last.pid)[key]

\* an all-null FactObject merged into an entry that holds a diagnosis
C7_Witness ==
    /\ hist # <<>> /\ Last.op = "update"
    /\ \A key \in ScalarFields : Last.f.f[key].f["value"] = Null
    /\ EntryOf(before, Last.pid).diagnosis = ValueEvidence(Str(Stage4), S(2))
    /\ EntryOf(graph, Last.pid).diagnosis = ValueEvidence(Str(Stage4), S(2))
    /\ EntryOf(graph, Last.pid).follow_up # None

\* C10: save(path) followed by load(path) yields the document that was saved,
\* with the same patient keys and entries.
C10_SaveLoadRoundTrip ==
    (Len(hist) = 2 /\ Prev.op = "save" /\ Last.op = "load")
        => DictEq(graph.patients, before.patients)

(* ======================== claims on the ask round ======================= *)
\* the term occurs in no retrieved passage
AbsentFromAll(hits, term) ==
    \A i \in 1..Len(hits) :
        \A j \in 1..Len(hits[i].text) :
            j + Len(term) - 1 > Len(hits[i].text)
            \/ \E n \in 1..Len(term) : hits[i].text[j + n - 1] # term[n]

\* the run r asked about a term that its passages do not contain
Suppressed(r) ==
    /\ rounds[r].pc \notin {"retrieve", "guardrail"}
    /\ rounds[r].hits # <<>>
    /\ rounds[r].focus # NoTerm
    /\ AbsentFromAll(rounds[r].hits, rounds[r].focus)

\* C8: a run whose focus term is absent from its passages ends with the fixed
\* empty FactObject, having called neither the model, the validator,
\* update_from_validated_json nor save, and never writes the graph file.
C8_GuardrailShortCircuit ==
    \A r \in Rounds :
        Suppressed(r) =>
            /\ rounds[r].pc = "done"
            /\ rounds[r].printed.what = "empty"
            /\ rounds[r].printed.obj.f =
                  [diagnosis |-> Obj([value |-> Null, evidence |-> Null]),
                   treatment |-> Obj([value |-> Null, evidence |-> Null]),
                   adverse_events |-> Arr(<<>>),
                   negated_findings |-> Arr(<<>>),
                   follow_up |-> Obj([value |-> Null, evidence |-> Null]),
                   other_notes |-> Str(<<"'">> \o rounds[r].focus
                                       \o <<"' not mentioned in sources.">>)]
            /\ rounds[r].called = {}
            /\ rounds[r].graph = EmptyGraph
            /\ lastWriter # r

\* "Is pneumonitis present?" over passages without the word, while the other
\* run has written the graph file
C8_Witness ==
    \E r \in Rounds :
        /\ Suppressed(r)
        /\ rounds[r].focus = <<"pneumonitis">>
        /\ rounds[r].pc = "done"
        /\ file.exists /\ ~file.partial /\ file.members # <<>>

\* the entries written in f under the member name of pid
FileEntries(f, pid) ==
    {f.members[i].v : i \in {j \in 1..Len(f.members) :
                                f.members[j].k = (IF pid = PyNone THEN "null" ELSE pid.s)}}
Elems(q) == {q[i] : i \in 1..Len(q)}
ListFields == {"adverse_events", "negated_findings"}

\* C9: the last full rewrite wins.  Once a run's json.dump has written the
\* file, every member is one the run read at its own load or its own patient's
\* entry, that entry holds every fact the run validated, and every fact in it
\* was read at the run's load or validated by the run: whatever another run
\* saved in between is gone, and both runs go on undisturbed.
C9_LastRewriteWins ==
    \A r \in Rounds :
        (lastWriter = r /\ file.exists /\ ~file.partial) =>
            LET pid == rounds[r].patient_id IN
            /\ \A i \in 1..Len(file.members) :
                  \/ file.members[i] \in Elems(rounds[r].seen.members)
                  \/ file.members[i].v \in FileEntries(file, pid)
            /\ \A key \in ListFields :
                  /\ \E e \in FileEntries(file, pid) :
                        Elems(rounds[r].parsed.f[key].a) \subseteq Elems(e[key])
                  /\ \A e \in FileEntries(file, pid) :
                        Elems(e[key]) \subseteq
                            Elems(rounds[r].parsed.f[key].a)
                            \cup UNION {Elems(x[key]) : x \in FileEntries(rounds[r].seen, pid)}
            /\ rounds[r].pc \in {"print", "sources", "done"}

\* both runs finished normally for the same patient, and a fact that one of
\* them validated, merged and saved is not in the file
C9_Witness ==
    \E r, o \in Rounds :
        /\ r # o
        /\ rounds[r].pc = "done" /\ rounds[o].pc = "done"
        /\ rounds[r].printed.what = "parsed" /\ rounds[o].printed.what = "parsed"
        /\ rounds[r].patient_id = PyKey("P001") /\ rounds[o].patient_id = PyKey("P001")
        /\ lastWriter = o /\ ~file.partial
        /\ \E e \in Elems(rounds[r].parsed.f["adverse_events"].a) :
              \A x \in FileEntries(file, PyKey("P001")) : e \notin Elems(x.adverse_events)

(* ================= claims on the lists of the PatientGraph ============== *)
NoRepeats(q) == \A i, j \in 1..Len(q) : q[i] = q[j] => i = j

\* C11: no adverse_events or negated_findings list of any patient holds two
\* equal entries; an update appends an incoming entry exactly when no equal
\* entry is in the list yet (a repeat inside the same FactObject counts), so
\* entries that differ in grade or in citation are all kept.
C11_ListsHoldNoRepeats ==
    /\ \A i \in 1..Len(graph.patients) :
          \A key \in ListFields : NoRepeats(graph.patients[i].v[key])
    /\ (hist # <<>> /\ Last.op = "update") =>
          \A key \in ListFields :
              LET old == EntryOf(before, Last.pid)[key]
                  new == EntryOf(graph, Last.pid)[key]
                  inc == Last.f.f[key].a
              IN  /\ Elems(new) = Elems(old) \cup Elems(inc)
                  /\ Len(new) - Len(old) = Cardinality(Elems(inc) \ Elems(old))

\* a FactObject that repeats an adverse event, merged into an entry that holds
\* the same event with another grade and the same negated finding with another
\* citation
C11_Witness ==
    /\ hist # <<>> /\ Last.op = "update"
    /\ Len(Last.f.f["adverse_events"].a) = 2
    /\ Len(EntryOf(before, Last.pid).adverse_events) = 2
    /\ Len(EntryOf(graph, Last.pid).adverse_events) = 3
    /\ \E a, b \in Elems(EntryOf(graph, Last.pid).adverse_events) :
          a.f["name"] = b.f["name"] /\ a.f["evidence"] = b.f["evidence"]
          /\ a.f["grade"] # b.f["grade"]
    /\ \E a, b \in Elems(EntryOf(graph, Last.pid).negated_findings) :
          a.f["name"] = b.f["name"] /\ a.f["evidence"] # b.f["evidence"]

(* ==================== claims on the evidence backfill =================== *)
\* x names its fact under `key` with a non-blank string and carries no
\* evidence: the key is missing, null or the empty string
LacksEvidence(x, key) ==
    /\ x.t = "obj" /\ HasKey(x, key)
    /\ x.f[key].t = "str" /\ strip(x.f[key].s) # <<>>
    /\ Get(x, "evidence", Null) \in {Null, Str(<<>>)}

\* x names its fact and carries evidence that is present and not empty
CarriesEvidence(x, key) ==
    /\ x.t = "obj" /\ HasKey(x, key)
    /\ x.f[key].t = "str" /\ strip(x.f[key].s) # <<>>
    /\ HasKey(x, "evidence") /\ Truthy(x.f["evidence"])

\* the facts of a validated input, each as <<field, index>>: index 0 is a field
\* given as one object, index i the i-th element of a list field
InputFacts ==
    IF vpc = "done" /\ text.json /\ text.v.t = "obj"
    THEN {<<key, 0>> : key \in {k \in ScalarFields \cup ListFields :
                                   HasKey(text.v, k) /\ text.v.f[k].t = "obj"}}
         \cup UNION { {<<key, i>> : i \in 1..Len(text.v.f[key].a)} :
                       key \in {k \in ListFields :
                                   HasKey(text.v, k) /\ text.v.f[k].t = "arr"} }
    ELSE {}
FactAt(p) == IF p[2] = 0 THEN text.v.f[p[1]] ELSE text.v.f[p[1]].a[p[2]]
NameKey(p) == IF p[1] \in ScalarFields THEN "value" ELSE "name"

\* the input with the evidence of fact p written as ev
WithEvidence(p, ev) ==
    LET x == SetKey(FactAt(p), "evidence", ev) IN
    TextOf(SetKey(text.v, p[1],
                  IF p[2] = 0 THEN x ELSE Arr([text.v.f[p[1]].a EXCEPT ![p[2]] = x])))

\* the returned FactObject holds fact p with evidence ev
ReturnedWith(p, ev) ==
    IF p[1] \in ScalarFields THEN Out(result.data, p[1]).f["evidence"] = ev
    ELSE \E key \in ListFields :
            \E j \in 1..Len(OutList(result.data, key)) :
                OutList(result.data, key)[j].f["evidence"] = ev

\* C12: a scalar object with a value, or a list entry object with a name, whose
\* evidence is missing, null or empty is treated with num_sources >= 1 exactly
\* as if it had said "[S1]" (and is returned with "[S1]"); with
\* num_sources = 0 the input is rejected with ValidationError.  Evidence that
\* is present and not empty is returned as given.
C12_EvidenceBackfill ==
    \A p \in InputFacts :
        /\ LacksEvidence(FactAt(p), NameKey(p)) =>
              IF num_sources >= 1
              THEN /\ result = validate_json_answer(WithEvidence(p, S1), num_sources)
                   /\ Returned => ReturnedWith(p, S1)
              ELSE result.err = VE
        /\ (CarriesEvidence(FactAt(p), NameKey(p)) /\ Returned) =>
              ReturnedWith(p, Str(pyStr(FactAt(p).f["evidence"])))

(* ================ claims on the shape of a FactObject ================== *)
\* C13: a returned FactObject has the six fields diagnosis, treatment,
\* adverse_events, negated_findings, follow_up and other_notes and no other;
\* each adverse_events entry has name, grade and evidence and no other field,
\* each negated_findings entry name and evidence and no other field.
C13_ExactlySixFields ==
    Returned =>
      /\ DOMAIN result.data.f = RequiredKeys \cup {"other_notes"}
      /\ \A i \in 1..Len(OutList(result.data, "adverse_events")) :
            DOMAIN OutList(result.data, "adverse_events")[i].f = {"name", "grade", "evidence"}
      /\ \A i \in 1..Len(OutList(result.data, "negated_findings")) :
            DOMAIN OutList(result.data, "negated_findings")[i].f = {"name", "evidence"}

\* C14: every negated_findings entry of a returned FactObject has a name that
\* is not empty and does not start with a negation phrase followed by a
\* concept, however the entry was given: as an object, as a bare string, or as
\* an adverse event that was moved.
C14_NegatedNamesStripped ==
    Returned =>
      \A i \in 1..Len(OutList(result.data, "negated_findings")) :
          LET name == OutList(result.data, "negated_findings")[i].f["name"] IN
          /\ name.t = "str"
          /\ name.s # <<>>
          /\ ~HasNegationPrefix(name.s)

(* =================== claims on the try block of main =================== *)
\* what the validator does with the completion of run r
Verdict(r) ==
    validate_json_answer(strip_json_fence(rounds[r].answer), Len(rounds[r].hits))

\* C15: a run calls update_from_validated_json only after the validator
\* returned a FactObject in that run, and with that object; a run whose
\* validator raised ValidationError calls neither update nor save, never
\* writes the graph file, prints the failure and goes on to print its sources
\* and return.
C15_MergeOnlyWhatWasValidated ==
    \A r \in Rounds :
        /\ "update" \in rounds[r].called =>
              /\ "validator" \in rounds[r].called
              /\ Verdict(r).err = OK
              /\ rounds[r].parsed = Verdict(r).data
              /\ rounds[r].graph =
                    update_from_validated_json(load(rounds[r].seen).g,
                                               rounds[r].patient_id, Verdict(r).data)
        /\ ("validator" \in rounds[r].called /\ Verdict(r).err = VE) =>
              /\ "update" \notin rounds[r].called
              /\ "save" \notin rounds[r].called
              /\ rounds[r].graph = load(rounds[r].seen).g
              /\ lastWriter # r
              /\ rounds[r].printed.what = "failure"
              /\ rounds[r].pc \in {"sources", "done"}

\* a run that got text that is not JSON has returned normally, and the file
\* still holds what the other run, which merged its FactObject, wrote
C15_Witness ==
    \E r, o \in Rounds :
        /\ r # o
        /\ "validator" \in rounds[r].called /\ Verdict(r).err = VE
        /\ rounds[r].pc = "done"
        /\ rounds[r].seen = file
        /\ "update" \in rounds[o].called /\ lastWriter = o
        /\ file.exists /\ ~file.partial /\ file.members # <<>>

(* ====================== claims on the focus term ======================= *)
\* what "is <term> present?" captures in q: <<matched, term>>
IsPresentCapture(q) ==
    IF \E i \in 1..(Len(q) - 2) : q[i] \in EndsInIs /\ q[Len(q)] = "present"
    THEN LET i == Min({j \in 1..(Len(q) - 2) : q[j] \in EndsInIs})
         IN  <<TRUE, SubSeq(q, i + 1, Len(q) - 1)>>
    ELSE <<FALSE, <<>>>>

\* what "... evidence of <term>?" captures in q: <<matched, term>>
EvidenceOfCapture(q) ==
    IF \E i \in 1..(Len(q) - 2) : q[i] = "evidence" /\ q[i + 1] = "of"
    THEN LET i == Min({j \in 1..(Len(q) - 2) : q[j] = "evidence" /\ q[j + 1] = "of"})
         IN  <<TRUE, SubSeq(q, i + 2, Len(q))>>
    ELSE <<FALSE, <<>>>>

IsStopWord(term) == Len(term) = 1 /\ term[1] \in STOPWORDS

\* C16: when "is <term> present?" matches and captures a stop word, no focus
\* term is returned, whatever "evidence of <term>?" would capture; likewise
\* when only "evidence of <term>?" matches and captures a stop word.  A term
\* that is returned is lower-cased and not a stop word.
C16_StopWordGivesNoTerm ==
    fpc = "done" =>
        LET q  == lower(question)
            c1 == IsPresentCapture(q)
            c2 == EvidenceOfCapture(q)
        IN  /\ (c1[1] /\ IsStopWord(c1[2])) => focus_term = NoTerm
            /\ (~c1[1] /\ c2[1] /\ IsStopWord(c2[2])) => focus_term = NoTerm
            /\ focus_term # NoTerm =>
                  /\ ~IsStopWord(focus_term)
                  /\ \A i \in 1..Len(focus_term) : LowerWord(focus_term[i]) = focus_term[i]

(* ======================== claims on save and load ====================== *)
\* C17: a save that fails after it has started leaves the file holding a whole
\* document, the previous one or the new one, and no load meets a file that is
\* not a document.
C17_FailedSaveLeavesADocument ==
    hist # <<>> =>
        /\ Last.op = "save_failed" => (~file.partial /\ load(file).err = OK)
        /\ Last.op # "load_failed"

(* ================= claims on what a PatientGraph call changes ========== *)
IsPrefix(a, b) == Len(a) <= Len(b) /\ SubSeq(b, 1, Len(a)) = a
FirstAt(q, x)  == Min({k \in 1..Len(q) : q[k] = x})

\* C18: add_patient and update_from_validated_json remove no patient and
\* remove or move no list entry: every patient of the graph before the call is
\* still there, each of its lists as it was is a prefix of the list after the
\* call, and what an update appended stands in the order of the incoming
\* FactObject.
C18_ListsOnlyGrowAtTheEnd ==
    (hist # <<>> /\ Last.op \in {"add_patient", "update"}) =>
        /\ Len(before.patients) <= Len(graph.patients)
        /\ \A i \in 1..Len(before.patients) :
              /\ graph.patients[i].k = before.patients[i].k
              /\ \A key \in ListFields :
                    IsPrefix(before.patients[i].v[key], graph.patients[i].v[key])
        /\ Last.op = "update" =>
              \A key \in ListFields :
                  LET old == EntryOf(before, Last.pid)[key]
                      new == EntryOf(graph, Last.pid)[key]
                      inc == Last.f.f[key].a
                      suf == SubSeq(new, Len(old) + 1, Len(new))
                  IN  /\ Elems(suf) \subseteq Elems(inc)
                      /\ \A i, j \in 1..Len(suf) :
                            i < j => FirstAt(inc, suf[i]) < FirstAt(inc, suf[j])

\* a FactObject with two new adverse events merged into an entry that holds
\* one, in a graph with another patient
C18_Witness ==
    /\ hist # <<>> /\ Last.op = "update"
    /\ Len(before.patients) = 2
    /\ Len(EntryOf(before, Last.pid).adverse_events) = 1
    /\ Len(EntryOf(graph, Last.pid).adverse_events) = 3
    /\ Len(EntryOf(graph, Last.pid).negated_findings) = 1

\* C19: add_patient(id) leaves the graph as it was when id has an entry and
\* otherwise adds the default entry (null scalars, empty lists) for id and
\* nothing else; update_from_validated_json(id, f) changes no entry but id's.
C19_OnlyTheNamedEntryChanges ==
    hist # <<>> =>
        /\ Last.op = "add_patient" =>
              IF Last.pid \in Keys(before.patients) THEN graph = before
              ELSE graph.patients =
                      Append(before.patients,
                             [k |-> Last.pid,
                              v |-> [diagnosis |-> Null, treatment |-> Null,
                                     adverse_events |-> <<>>, negated_findings |-> <<>>,
                                     follow_up |-> Null]])
        /\ Last.op = "update" =>
              /\ Len(graph.patients) =
                    Len(before.patients) + (IF Last.pid \in Keys(before.patients) THEN 0 ELSE 1)
              /\ \A i \in 1..Len(before.patients) :
                    before.patients[i].k # Last.pid => graph.patients[i] = before.patients[i]
              /\ Last.pid \in Keys(graph.patients)

\* add_patient for a patient whose entry holds facts, in a graph with another
\* patient
C19_Witness ==
    /\ hist # <<>> /\ Last.op = "add_patient"
    /\ Last.pid \in Keys(before.patients)
    /\ Len(before.patients) = 2
    /\ EntryOf(before, Last.pid).diagnosis # None
    /\ EntryOf(before, Last.pid).adverse_events # <<>>

(* ================== claims on runs one after another =================== *)
\* the entry of pid in the document the file holds, as json.load reads it
Persisted(pid) ==
    LET g == load(file).g.patients
        k == PyKey(JsonKey(pid))
    IN  IF k \in Keys(g) THEN Lookup(g, k) ELSE DefaultEntry

\* C20: with runs made strictly one after another and every save succeeding,
\* whenever the file is not being written it holds, for each patient, every
\* adverse_events and negated_findings entry that a run so far validated,
\* merged and saved for that patient, and each scalar is the ValueFact of the
\* latest such run that gave a non-null value.
C20_NothingAcceptedIsLost ==
    (nrounds >= 1 /\ ~file.partial) =>
        /\ \A x \in Booked("r1").lists : x[3] \in Elems(Persisted(x[1])[x[2]])
        /\ \A x \in Booked("r1").scalars : Persisted(x[1])[x[2]] = x[3]

====
